---- MODULE Spec2Model ----
(***************************************************************************)
(* Model of davifeliciano/adventofcode2023.                                *)
(*                                                                         *)
(*   day-03  EngineSchematic: grid validation, part catalog, gear pairing  *)
(*   day-01  add_over_lines: scoped worker threads adding under a Mutex    *)
(*   day-02  games_from_lines, Game::from_str, CubeCollection::contains    *)
(*   day-04  CardCollection::from_lines, increment_copies, total_copies    *)
(*   day-05  Range::get_destination, CategoryMap::get_destination          *)
(*                                                                         *)
(* Strings are sequences of one-character strings.  Columns and rows keep  *)
(* the 0-based values the Rust code uses; Row and Slice translate them to  *)
(* the 1-based sequences of TLA+.                                          *)
(***************************************************************************)
EXTENDS Integers, Sequences, FiniteSets, TLC

VARIABLES content, part_number_pattern, symbol_pattern, build_result,
          schematic, gear_ratios_pairs, query_fault, builds, queries

engineVars == <<content, part_number_pattern, symbol_pattern, build_result,
                schematic, gear_ratios_pairs, query_fault, builds, queries>>

\* day-01 add_over_lines: the arguments, the chunks, the main thread's position,
\* the shared Mutex<u32> and each spawned worker's position
VARIABLES input_lines, worker_count, adder, chunks, main_pc, spawned, joined,
          sum, mutex, poisoned, th_pc, th_i, th_tmp, add_result

addVars == <<input_lines, worker_count, adder, chunks, main_pc, spawned, joined,
             sum, mutex, poisoned, th_pc, th_i, th_tmp, add_result>>

\* day-02 games_from_lines: the arguments, the chunks, the main thread's position,
\* the games appended so far, and each spawned worker's position and collected
\* Result<Vec<Game>, ParseError>
VARIABLES game_lines, game_workers, game_chunks, games_pc, games_spawned,
          games_joined, games, games_result, gth_pc, gth_i, gth_games, gth_err

gameVars == <<game_lines, game_workers, game_chunks, games_pc, games_spawned,
              games_joined, games, games_result, gth_pc, gth_i, gth_games, gth_err>>

\* day-04 CardCollection: the arguments of from_lines, its result, the cards
\* of the collection and the result of total_copies
VARIABLES card_lines, workers_count, from_lines_result, cards, total_copies_result

cardVars == <<card_lines, workers_count, from_lines_result, cards, total_copies_result>>

\* day-05 CategoryMap: the ranges of the map, the source looked up, whether the
\* build checks integer overflow, and the outcome of get_destination
VARIABLES ranges, source, overflow_checks, get_destination_result, destination

mapVars == <<ranges, source, overflow_checks, get_destination_result, destination>>

\* day-02 Game::is_possible: the bag, the draws of the game, the results of the
\* contains calls made, and the result
VARIABLES cubes_in_bag, game_draws, contains_results, is_possible_called, is_possible

bagVars == <<cubes_in_bag, game_draws, contains_results, is_possible_called, is_possible>>

\* the state of the libraries of day-02 and later, and the state outside each of them
extVars == <<gameVars, cardVars, mapVars, bagVars>>
outsideGames == <<engineVars, addVars, cardVars, mapVars, bagVars>>
outsideCards == <<engineVars, addVars, gameVars, mapVars, bagVars>>
outsideMap == <<engineVars, addVars, gameVars, cardVars, bagVars>>
outsideBag == <<engineVars, addVars, gameVars, cardVars, mapVars>>

vars == <<engineVars, addVars, extVars>>

-----------------------------------------------------------------------------
(* Bounds on the inputs.                                                   *)

\* rectangular grids over GridChars: at most MaxRows rows of at most MaxCols
\* columns, and at most MaxCells cells
MaxRows == 3
MaxCols == 3
MaxCells == 9
\* arbitrary texts (any character, any line structure) of at most MaxRaw characters
MaxRaw == 5
\* a caller that repeats build / get_gear_ratios_pairs does so at most MaxCalls times
MaxCalls == 2
\* add_over_lines is called with at most MaxLines lines and at most MaxWorkers workers
MaxLines == 3
MaxWorkers == 3
\* the largest value of the shared sum's unsigned type: 2^32 - 1 for the code's
\* u32, narrowed here so that the bounded inputs reach the overflow
U32Max == 15

Max(a, b) == IF a >= b THEN a ELSE b
Min(a, b) == IF a <= b THEN a ELSE b

NL == "\n"
Digits == {"1"}
GridChars == {"1", ".", "*"}
RawChars == {"1", ".", "*", "^", "#", NL}

-----------------------------------------------------------------------------
(* The pattern-matching primitive (regex crate), for the patterns the      *)
(* program uses.                                                           *)

NumPattern == "\\d+"
SymPattern == "[^\\.^\\d]"
GearPattern == "\\*"
BadPattern == "("
\* a symbol pattern a caller may pass instead: anything but the filler
NonFillerPattern == "[^\\.]"

Patterns == {NumPattern, SymPattern, GearPattern, BadPattern, NonFillerPattern}

\* Regex::new: Ok for a pattern that compiles, Err otherwise
RegexNew(p) == p \in {NumPattern, SymPattern, GearPattern, NonFillerPattern}

\* the characters one position of the pattern matches:
\*   \d          a decimal digit
\*   [^\.^\d]    negated class: anything but '.', '^' and digits
\*   \*          a literal '*'
\*   [^\.]       negated class: anything but '.'
ClassMatches(p, c) ==
    CASE p = NumPattern  -> c \in Digits
      [] p = SymPattern  -> c \notin ({".", "^"} \cup Digits)
      [] p = GearPattern -> c = "*"
      [] p = NonFillerPattern -> c # "."
      [] OTHER           -> FALSE

\* does the pattern repeat its class greedily (the trailing +)
IsPlus(p) == p = NumPattern

\* &line[a..b] for in-range a <= b <= len; the empty slice otherwise (the
\* out-of-range case is recorded separately, see the *Reads operators)
Slice(line, a, b) == IF 0 <= a /\ a <= b /\ b <= Len(line) THEN SubSeq(line, a + 1, b) ELSE <<>>

\* Regex::is_match on a haystack: some position matches (all patterns here
\* match at least one character and need only one)
IsMatch(p, s) == \E i \in 1..Len(s) : ClassMatches(p, s[i])

\* end (exclusive, 0-based) of the greedy run of class characters starting at pos
RECURSIVE RunEnd(_, _, _)
RunEnd(p, line, pos) ==
    IF pos < Len(line) /\ ClassMatches(p, line[pos + 1]) THEN RunEnd(p, line, pos + 1) ELSE pos

\* Regex::find_iter: leftmost-first non-overlapping matches, left to right
RECURSIVE FindFrom(_, _, _)
FindFrom(p, line, pos) ==
    IF pos >= Len(line) THEN <<>>
    ELSE IF ClassMatches(p, line[pos + 1])
         THEN LET e == IF IsPlus(p) THEN RunEnd(p, line, pos) ELSE pos + 1
              IN <<[start |-> pos, end |-> e, text |-> Slice(line, pos, e)]>> \o FindFrom(p, line, e)
         ELSE FindFrom(p, line, pos + 1)

FindIter(p, line) == FindFrom(p, line, 0)

-----------------------------------------------------------------------------
(* str::lines                                                              *)

\* split at each "\n"; a final line needs no terminator, and a terminator at
\* the very end opens no further line ("" has no lines, "\n" has one empty line)
RECURSIVE LinesFrom(_, _, _)
LinesFrom(s, pos, cur) ==
    IF pos > Len(s) THEN (IF cur = <<>> THEN <<>> ELSE <<cur>>)
    ELSE IF s[pos] = NL THEN <<cur>> \o LinesFrom(s, pos + 1, <<>>)
         ELSE LinesFrom(s, pos + 1, Append(cur, s[pos]))

StrLines(s) == LinesFrom(s, 1, <<>>)

-----------------------------------------------------------------------------
(* day-03/src/lib.rs                                                       *)

EmptyInputMsg == "input must not be empty"
IrregularMsg == "lines in input does not have equal length"
BadNumPatternMsg == "invalid part_number_pattern"
BadSymPatternMsg == "invalid symbol_regex"

NoSchematic == [lines |-> <<>>, line_length |-> 0, part_numbers |-> <<>>, built |-> FALSE]
\* gear_ratios_pairs before any query (queries = 0)
NoOutput == <<>>
None == <<>>

Row(lines, i) == lines[i + 1]

\* mutant: the rows are not compared with the first row's length
ValidateContentLines_NoLengthCheck(c) ==
    LET ls == StrLines(c) IN
    IF ls = <<>> THEN [ok |-> FALSE, err |-> EmptyInputMsg, line_length |-> 0, lines |-> <<>>]
    ELSE [ok |-> TRUE, err |-> "", line_length |-> Len(ls[1]), lines |-> ls]

\* validate_content_lines: Err(msg) or Ok((line_length, lines))
ValidateContentLines(c) ==
    LET ls == StrLines(c) IN
    IF ls = <<>> THEN [ok |-> FALSE, err |-> EmptyInputMsg, line_length |-> 0, lines |-> <<>>]
    ELSE LET ll == Len(ls[1]) IN
         IF ~(\A i \in 2..Len(ls) : Len(ls[i]) = ll)
         THEN [ok |-> FALSE, err |-> IrregularMsg, line_length |-> 0, lines |-> <<>>]
         ELSE [ok |-> TRUE, err |-> "", line_length |-> ll, lines |-> ls]

GetEnclosingLinesIndices(gear_line_index, lines) ==
    <<IF gear_line_index = 0 THEN gear_line_index ELSE gear_line_index - 1,
      IF gear_line_index = lines - 1 THEN gear_line_index ELSE gear_line_index + 1>>

\* mutant: the right flank is never added to the window
GetMatchBoundary_NoRightFlank(re_match, line_length) ==
    <<IF re_match.start = 0 THEN re_match.start ELSE re_match.start - 1, re_match.end>>

\* mutant: the window is not clipped at the last column
GetMatchBoundary_Unclipped(re_match, line_length) ==
    <<IF re_match.start = 0 THEN re_match.start ELSE re_match.start - 1, re_match.end + 1>>

\* mutant: the left flank is added without the test for column 0
GetMatchBoundary_NoLeftClip(re_match, line_length) ==
    <<re_match.start - 1,
      IF re_match.end = line_length THEN re_match.end ELSE re_match.end + 1>>

GetMatchBoundary(re_match, line_length) ==
    <<IF re_match.start = 0 THEN re_match.start ELSE re_match.start - 1,
      IF re_match.end = line_length THEN re_match.end ELSE re_match.end + 1>>

\* mutant: the difference is taken without ordering the two indexes
IndexesDistance_Signed(indexes) == indexes[1] - indexes[2]

IndexesDistance(indexes) ==
    IF indexes[1] > indexes[2] THEN indexes[1] - indexes[2] ELSE indexes[2] - indexes[1]

FromMatch(num_match, line_index, line_length) ==
    [line_index |-> line_index, line_length |-> line_length, num_match |-> num_match]

HasGearSymbol(pn, gear_match, gear_line_index) ==
    LET b == GetMatchBoundary(pn.num_match, pn.line_length) IN
    /\ IndexesDistance(<<gear_line_index, pn.line_index>>) <= 1
    /\ b[1] <= gear_match.start
    /\ gear_match.end <= b[2]

LineOfMatchHasSymbol(lines, symbol_regex, line_index, boundary) ==
    LET line == Row(lines, line_index)
        before == IsMatch(symbol_regex, Slice(line, boundary[1], boundary[1] + 1))
        after == IsMatch(symbol_regex, Slice(line, boundary[2] - 1, boundary[2]))
    IN before \/ after

\* mutant: the row above is searched one column short of the window on each side
LineBeforeMatchHasSymbol_NoDiagonal(lines, symbol_regex, line_index, boundary) ==
    /\ line_index # 0
    /\ IsMatch(symbol_regex, Slice(Row(lines, line_index - 1), boundary[1] + 1, boundary[2] - 1))

LineBeforeMatchHasSymbol(lines, symbol_regex, line_index, boundary) ==
    /\ line_index # 0
    /\ IsMatch(symbol_regex, Slice(Row(lines, line_index - 1), boundary[1], boundary[2]))

\* mutant: the row two below the token is searched instead of the row below
LineAfterMatchHasSymbol_TwoBelow(lines, symbol_regex, line_index, boundary) ==
    /\ line_index + 2 <= Len(lines) - 1
    /\ IsMatch(symbol_regex, Slice(Row(lines, line_index + 2), boundary[1], boundary[2]))

LineAfterMatchHasSymbol(lines, symbol_regex, line_index, boundary) ==
    /\ line_index # Len(lines) - 1
    /\ IsMatch(symbol_regex, Slice(Row(lines, line_index + 1), boundary[1], boundary[2]))

MatchIsPartNumber(lines, line_length, symbol_regex, num_match, line_index) ==
    LET match_boundary == GetMatchBoundary(num_match, line_length) IN
    \/ LineOfMatchHasSymbol(lines, symbol_regex, line_index, match_boundary)
    \/ LineBeforeMatchHasSymbol(lines, symbol_regex, line_index, match_boundary)
    \/ LineAfterMatchHasSymbol(lines, symbol_regex, line_index, match_boundary)

\* the inner loop of set_part_numbers: the bucket of one row
LinePartNumbers(lines, line_length, part_number_regex, symbol_regex, line_index) ==
    LET ms == FindIter(part_number_regex, Row(lines, line_index))
        keep(m) == MatchIsPartNumber(lines, line_length, symbol_regex, m, line_index)
        kept == SelectSeq(ms, keep)
    IN [k \in 1..Len(kept) |-> FromMatch(kept[k], line_index, line_length)]

\* mutant: a row without part numbers gets no bucket
SetPartNumbers_SkipEmpty(lines, line_length, part_numbers, part_number_regex, symbol_regex) ==
    part_numbers \o
    SelectSeq([r \in 1..Len(lines) |->
                  LinePartNumbers(lines, line_length, part_number_regex, symbol_regex, r - 1)],
              LAMBDA b : b # <<>>)

\* set_part_numbers: pushes one bucket per row onto self.part_numbers
SetPartNumbers(lines, line_length, part_numbers, part_number_regex, symbol_regex) ==
    part_numbers \o
    [r \in 1..Len(lines) |->
        LinePartNumbers(lines, line_length, part_number_regex, symbol_regex, r - 1)]


\* mutant: a build starts from the catalog of the schematic built before
StaleCatalog == schematic.part_numbers

\* the catalog a schematic starts with: `part_numbers: vec![]`
FreshCatalog == <<>>

\* mutant: the scan of a bucket also stops at a token starting at the symbol's end
RECURSIVE ScanBucket_BreakAtEnd(_, _, _, _)
ScanBucket_BreakAtEnd(bucket, k, gear_match, gear_line_index) ==
    IF k > Len(bucket) THEN <<>>
    ELSE IF bucket[k].num_match.start >= gear_match.end THEN <<>>
    ELSE (IF HasGearSymbol(bucket[k], gear_match, gear_line_index) THEN <<bucket[k]>> ELSE <<>>)
         \o ScanBucket_BreakAtEnd(bucket, k + 1, gear_match, gear_line_index)

\* the inner loop of get_number_pair_for_gear over one bucket, from its k-th
\* token on: stops at the first token starting after the symbol's end
RECURSIVE ScanBucket(_, _, _, _)
ScanBucket(bucket, k, gear_match, gear_line_index) ==
    IF k > Len(bucket) THEN <<>>
    ELSE IF bucket[k].num_match.start > gear_match.end THEN <<>>
    ELSE (IF HasGearSymbol(bucket[k], gear_match, gear_line_index) THEN <<bucket[k]>> ELSE <<>>)
         \o ScanBucket(bucket, k + 1, gear_match, gear_line_index)

\* the outer loop: buckets start_line..end_line of the catalog, in order
RECURSIVE ScanBand(_, _, _, _, _)
ScanBand(part_numbers, line, end_line, gear_match, gear_line_index) ==
    IF line > end_line \/ line + 1 > Len(part_numbers) THEN <<>>
    ELSE ScanBucket(part_numbers[line + 1], 1, gear_match, gear_line_index)
         \o ScanBand(part_numbers, line + 1, end_line, gear_match, gear_line_index)

\* mutant: the first two adjacent tokens are paired whenever there are at least two
GetNumberPairForGear_FirstTwo(sch, gear_match, gear_line_index) ==
    LET band == GetEnclosingLinesIndices(gear_line_index, Len(sch.lines))
        gear_ratios == ScanBand(sch.part_numbers, band[1], band[2], gear_match, gear_line_index)
    IN IF Len(gear_ratios) >= 2 THEN <<gear_ratios[1], gear_ratios[2]>> ELSE None

\* mutant: the two tokens are returned second first
GetNumberPairForGear_Swapped(sch, gear_match, gear_line_index) ==
    LET band == GetEnclosingLinesIndices(gear_line_index, Len(sch.lines))
        gear_ratios == ScanBand(sch.part_numbers, band[1], band[2], gear_match, gear_line_index)
    IN IF Len(gear_ratios) = 2 THEN <<gear_ratios[2], gear_ratios[1]>> ELSE None

\* get_number_pair_for_gear: None, or Some([first, second]) written <<first, second>>
GetNumberPairForGear(sch, gear_match, gear_line_index) ==
    LET band == GetEnclosingLinesIndices(gear_line_index, Len(sch.lines))
        gear_ratios == ScanBand(sch.part_numbers, band[1], band[2], gear_match, gear_line_index)
    IN IF Len(gear_ratios) = 2 THEN <<gear_ratios[1], gear_ratios[2]>> ELSE None

\* the bucket get_gear_ratios_pairs builds for one row
LineGearRatios(sch, gear_symbol_regex, gear_line_index) ==
    LET ms == FindIter(gear_symbol_regex, Row(sch.lines, gear_line_index))
        some(m) == GetNumberPairForGear(sch, m, gear_line_index) # None
        hits == SelectSeq(ms, some)
    IN [k \in 1..Len(hits) |-> GetNumberPairForGear(sch, hits[k], gear_line_index)]

\* mutant: a row without pairs gets no bucket
GetGearRatiosPairs_SkipEmpty(sch, gear_symbol_regex) ==
    SelectSeq([r \in 1..Len(sch.lines) |-> LineGearRatios(sch, gear_symbol_regex, r - 1)],
              LAMBDA b : b # <<>>)

GetGearRatiosPairs(sch, gear_symbol_regex) ==
    [r \in 1..Len(sch.lines) |-> LineGearRatios(sch, gear_symbol_regex, r - 1)]

-----------------------------------------------------------------------------
(* Every index, slice and unsigned subtraction the code evaluates, in the  *)
(* order and under the conditions (short-circuit ||, &&, match arms) the   *)
(* code evaluates them.                                                    *)
(*   row      lines[lo]              of a Vec of len entries               *)
(*   cols     line[lo..hi]           of a str of len bytes                 *)
(*   catalog  part_numbers[lo..hi]   of a Vec of len buckets               *)
(*   sub      lo - hi                on usize                              *)

Rd(kind, lo, hi, len) == [kind |-> kind, lo |-> lo, hi |-> hi, len |-> len]

ReadOk(rd) ==
    CASE rd.kind = "row" -> 0 <= rd.lo /\ rd.lo < rd.len
      [] rd.kind = "sub" -> rd.lo >= rd.hi
      [] OTHER           -> 0 <= rd.lo /\ rd.lo <= rd.hi /\ rd.hi <= rd.len

GetMatchBoundaryReads(re_match, line_length) ==
    IF re_match.start = 0 THEN {} ELSE {Rd("sub", re_match.start, 1, 0)}

GetEnclosingLinesIndicesReads(gear_line_index, lines) ==
    (IF gear_line_index = 0 THEN {} ELSE {Rd("sub", gear_line_index, 1, 0)})
    \cup {Rd("sub", lines, 1, 0)}

RowLen(lines, i) == IF 0 <= i /\ i < Len(lines) THEN Len(Row(lines, i)) ELSE 0

LineOfMatchReads(lines, line_index, boundary) ==
    { Rd("row", line_index, line_index, Len(lines)),
      Rd("cols", boundary[1], boundary[1] + 1, RowLen(lines, line_index)),
      Rd("sub", boundary[2], 1, 0),
      Rd("cols", boundary[2] - 1, boundary[2], RowLen(lines, line_index)) }

LineBeforeMatchReads(lines, line_index, boundary) ==
    IF line_index = 0 THEN {}
    ELSE { Rd("sub", line_index, 1, 0),
           Rd("row", line_index - 1, line_index - 1, Len(lines)),
           Rd("cols", boundary[1], boundary[2], RowLen(lines, line_index - 1)) }

LineAfterMatchReads(lines, line_index, boundary) ==
    {Rd("sub", Len(lines), 1, 0)} \cup
    (IF line_index = Len(lines) - 1 THEN {}
     ELSE { Rd("row", line_index + 1, line_index + 1, Len(lines)),
            Rd("cols", boundary[1], boundary[2], RowLen(lines, line_index + 1)) })

MatchIsPartNumberReads(lines, line_length, symbol_regex, num_match, line_index) ==
    LET b == GetMatchBoundary(num_match, line_length) IN
    GetMatchBoundaryReads(num_match, line_length)
    \cup LineOfMatchReads(lines, line_index, b)
    \cup (IF LineOfMatchHasSymbol(lines, symbol_regex, line_index, b) THEN {}
          ELSE LineBeforeMatchReads(lines, line_index, b)
               \cup (IF LineBeforeMatchHasSymbol(lines, symbol_regex, line_index, b) THEN {}
                     ELSE LineAfterMatchReads(lines, line_index, b)))

SetPartNumbersReads(lines, line_length, part_number_regex, symbol_regex) ==
    UNION { LET ms == FindIter(part_number_regex, Row(lines, r)) IN
            {Rd("row", r, r, Len(lines))} \cup
            UNION { MatchIsPartNumberReads(lines, line_length, symbol_regex, ms[k], r)
                    : k \in 1..Len(ms) }
            : r \in 0..(Len(lines) - 1) }

\* the tokens of a bucket the inner loop reaches before its break
Scanned(bucket, gear_match) ==
    {k \in 1..Len(bucket) : \A j \in 1..k : bucket[j].num_match.start <= gear_match.end}

HasGearSymbolReads(pn, gear_match, gear_line_index) ==
    GetMatchBoundaryReads(pn.num_match, pn.line_length)
    \cup {IF gear_line_index > pn.line_index
          THEN Rd("sub", gear_line_index, pn.line_index, 0)
          ELSE Rd("sub", pn.line_index, gear_line_index, 0)}

GetNumberPairForGearReads(sch, gear_match, gear_line_index) ==
    LET band == GetEnclosingLinesIndices(gear_line_index, Len(sch.lines))
        inband == {l \in band[1]..band[2] : l + 1 <= Len(sch.part_numbers)}
    IN
    GetEnclosingLinesIndicesReads(gear_line_index, Len(sch.lines))
    \cup {Rd("catalog", band[1], band[2] + 1, Len(sch.part_numbers))}
    \cup UNION { UNION { HasGearSymbolReads(sch.part_numbers[l + 1][k], gear_match, gear_line_index)
                         : k \in Scanned(sch.part_numbers[l + 1], gear_match) }
                 : l \in inband }

GetGearRatiosPairsReads(sch, gear_symbol_regex) ==
    UNION { LET ms == FindIter(gear_symbol_regex, Row(sch.lines, r)) IN
            {Rd("row", r, r, Len(sch.lines))} \cup
            UNION { GetNumberPairForGearReads(sch, ms[k], r) : k \in 1..Len(ms) }
            : r \in 0..(Len(sch.lines) - 1) }

-----------------------------------------------------------------------------
(* Inputs                                                                  *)

\* the lines add_over_lines is given, and the values an adder returns for them
LineSet == {"a", "b"}
AdderValues == {1, 2, U32Max}

RECURSIVE JoinRows(_, _)
JoinRows(rows, i) ==
    IF i > Len(rows) THEN <<>>
    ELSE rows[i] \o (IF i < Len(rows) THEN <<NL>> ELSE <<>>) \o JoinRows(rows, i + 1)

GridShapes == { hw \in (1..MaxRows) \X (1..MaxCols) : hw[1] * hw[2] <= MaxCells }

\* the texts of all rectangular grids of 1..MaxRows rows by 1..MaxCols columns
\* with at most MaxCells cells
GridContents ==
    UNION { { JoinRows(g, 1) : g \in [1..hw[1] -> [1..hw[2] -> GridChars]] } : hw \in GridShapes }

\* all texts of at most MaxRaw characters, line breaks anywhere
RawContents == UNION { [1..n -> RawChars] : n \in 0..MaxRaw }

-----------------------------------------------------------------------------
(* State machine of a caller of EngineSchematic                            *)

EngineInputs ==
    \/ /\ content \in GridContents
       /\ part_number_pattern = NumPattern
       /\ symbol_pattern = SymPattern
    \/ /\ content \in RawContents
       /\ part_number_pattern \in {NumPattern, BadPattern}
       /\ symbol_pattern \in {SymPattern, BadPattern}

EngineIdle ==
    /\ build_result = "none"
    /\ schematic = NoSchematic
    /\ gear_ratios_pairs = NoOutput
    /\ query_fault = FALSE
    /\ builds = 0
    /\ queries = 0

\* add_over_lines not called
AddIdle ==
    /\ input_lines = <<>>
    /\ worker_count = 1
    /\ adder = [l \in LineSet |-> 0]
    /\ chunks = <<>>
    /\ main_pc = "idle"
    /\ spawned = 0
    /\ joined = 0
    /\ sum = 0
    /\ mutex = 0
    /\ poisoned = FALSE
    /\ th_pc = <<>>
    /\ th_i = <<>>
    /\ th_tmp = <<>>
    /\ add_result = 0

\* games_from_lines not called
GamesIdle ==
    /\ game_lines = <<>>
    /\ game_workers = 1
    /\ game_chunks = <<>>
    /\ games_pc = "idle"
    /\ games_spawned = 0
    /\ games_joined = 0
    /\ games = <<>>
    /\ games_result = "none"
    /\ gth_pc = <<>>
    /\ gth_i = <<>>
    /\ gth_games = <<>>
    /\ gth_err = <<>>

\* CardCollection::from_lines not called
CardsIdle ==
    /\ card_lines = <<>>
    /\ workers_count = 1
    /\ from_lines_result = "none"
    /\ cards = <<>>
    /\ total_copies_result = 0

\* no CategoryMap
MapIdle ==
    /\ ranges = <<>>
    /\ source = 0
    /\ overflow_checks = FALSE
    /\ get_destination_result = "none"
    /\ destination = 0

\* Game::is_possible not called
BagIdle ==
    /\ cubes_in_bag = [cube \in {"Red", "Green", "Blue"} |-> 0 - 1]
    /\ game_draws = <<>>
    /\ contains_results = <<>>
    /\ is_possible_called = FALSE
    /\ is_possible = FALSE

\* none of the libraries of day-02 and later called
ExtIdle == GamesIdle /\ CardsIdle /\ MapIdle /\ BagIdle

Init == EngineInputs /\ EngineIdle /\ AddIdle /\ ExtIdle

\* EngineSchematic::build(content, part_number_pattern, symbol_pattern)
BuildStep ==
    LET v == ValidateContentLines(content) IN
    /\ IF ~v.ok
       THEN build_result' = v.err /\ schematic' = NoSchematic
       ELSE IF ~RegexNew(part_number_pattern)
       THEN build_result' = BadNumPatternMsg /\ schematic' = NoSchematic
       ELSE IF ~RegexNew(symbol_pattern)
       THEN build_result' = BadSymPatternMsg /\ schematic' = NoSchematic
       ELSE IF \E rd \in SetPartNumbersReads(v.lines, v.line_length,
                                            part_number_pattern, symbol_pattern) : ~ReadOk(rd)
       THEN build_result' = "panic" /\ schematic' = NoSchematic
       ELSE /\ build_result' = "ok"
            /\ schematic' = [lines |-> v.lines, line_length |-> v.line_length,
                             part_numbers |-> SetPartNumbers(v.lines, v.line_length, FreshCatalog,
                                                             part_number_pattern, symbol_pattern),
                             built |-> TRUE]
    /\ gear_ratios_pairs' = NoOutput
    /\ query_fault' = FALSE
    /\ builds' = builds + 1
    /\ queries' = 0
    /\ UNCHANGED <<content, part_number_pattern, symbol_pattern>>
    /\ UNCHANGED <<addVars, extVars>>

\* schematic.get_gear_ratios_pairs(&Regex::new(r"\*"))
QueryStep ==
    /\ schematic.built
    /\ IF \E rd \in GetGearRatiosPairsReads(schematic, GearPattern) : ~ReadOk(rd)
       THEN query_fault' = TRUE /\ gear_ratios_pairs' = NoOutput
       ELSE query_fault' = FALSE /\ gear_ratios_pairs' = GetGearRatiosPairs(schematic, GearPattern)
    /\ queries' = queries + 1
    /\ UNCHANGED <<content, part_number_pattern, symbol_pattern, build_result, schematic, builds>>
    /\ UNCHANGED <<addVars, extVars>>

\* the binaries: one build, then at most one query (bin/part1.rs, bin/part2.rs)
Build == builds = 0 /\ BuildStep
CallGetGearRatiosPairs == queries = 0 /\ QueryStep

Next == Build \/ CallGetGearRatiosPairs

Spec == Init /\ [][Next]_vars

\* a caller that passes either symbol pattern with the grids above
InitAnySymbols ==
    /\ content \in GridContents
    /\ part_number_pattern = NumPattern
    /\ symbol_pattern \in {SymPattern, NonFillerPattern}
    /\ EngineIdle
    /\ AddIdle
    /\ ExtIdle

SpecAnySymbols == InitAnySymbols /\ [][Next]_vars

\* a caller that builds again from the same content and queries the same
\* schematic again, on texts of at most MaxRaw characters
InitRepeat ==
    /\ content \in RawContents
    /\ part_number_pattern = NumPattern
    /\ symbol_pattern = SymPattern
    /\ EngineIdle
    /\ AddIdle
    /\ ExtIdle

BuildAgain == builds < MaxCalls /\ BuildStep
QueryAgain == queries < MaxCalls /\ QueryStep

NextRepeat == BuildAgain \/ QueryAgain

SpecRepeat == InitRepeat /\ [][NextRepeat]_vars

-----------------------------------------------------------------------------
(* day-01/src/lib.rs: add_over_lines                                       *)

\* slice::chunks(size): consecutive chunks of size elements, the last one shorter
RECURSIVE ChunksFrom(_, _, _)
ChunksFrom(ls, size, pos) ==
    IF pos > Len(ls) THEN <<>>
    ELSE <<SubSeq(ls, pos, Min(Len(ls), pos + size - 1))>> \o ChunksFrom(ls, size, pos + size)

\* lines.chunks(lines.len() / worker_count + 1)
ChunkSize(n, workers) == (n \div workers) + 1

Chunks(ls, workers) == ChunksFrom(ls, ChunkSize(Len(ls), workers), 1)

\* mutant: the lock is granted while another worker holds it
MutexFree_NoExclusion == TRUE

\* Mutex::lock blocks while another thread holds the guard
MutexFree == mutex = 0

Threads == 1..Len(chunks)

InitAdd ==
    /\ input_lines \in UNION { [1..n -> LineSet] : n \in 0..MaxLines }
    /\ worker_count \in 1..MaxWorkers
    /\ adder \in [LineSet -> AdderValues]
    /\ chunks = Chunks(input_lines, worker_count)
    /\ main_pc = "spawn"
    /\ spawned = 0
    /\ joined = 0
    /\ sum = 0
    /\ mutex = 0
    /\ poisoned = FALSE
    /\ th_pc = [t \in 1..Len(chunks) |-> "lock"]
    /\ th_i = [t \in 1..Len(chunks) |-> 1]
    /\ th_tmp = [t \in 1..Len(chunks) |-> 0]
    /\ add_result = 0
    /\ content = <<>>
    /\ part_number_pattern = NumPattern
    /\ symbol_pattern = SymPattern
    /\ EngineIdle
    /\ ExtIdle

\* handles.push(s.spawn(..)) for the next chunk; after the last chunk main joins
Spawn ==
    /\ main_pc = "spawn"
    /\ IF spawned < Len(chunks)
       THEN spawned' = spawned + 1 /\ main_pc' = main_pc
       ELSE spawned' = spawned /\ main_pc' = "join"
    /\ UNCHANGED <<input_lines, worker_count, adder, chunks, joined, sum, mutex, poisoned,
                   th_pc, th_i, th_tmp, add_result>>
    /\ UNCHANGED <<engineVars, extVars>>

\* sum.lock().unwrap() in worker t: the guard once the mutex is free; a
\* poisoned mutex makes unwrap panic
Lock(t) ==
    /\ t <= spawned
    /\ th_pc[t] = "lock"
    /\ MutexFree
    /\ IF poisoned
       THEN th_pc' = [th_pc EXCEPT ![t] = "panicked"] /\ mutex' = mutex
       ELSE th_pc' = [th_pc EXCEPT ![t] = "load"] /\ mutex' = t
    /\ UNCHANGED <<input_lines, worker_count, adder, chunks, main_pc, spawned, joined, sum, poisoned,
                   th_i, th_tmp, add_result>>
    /\ UNCHANGED <<engineVars, extVars>>

\* *sum += adder(line): the read of the shared sum
Load(t) ==
    /\ th_pc[t] = "load"
    /\ th_tmp' = [th_tmp EXCEPT ![t] = sum]
    /\ th_pc' = [th_pc EXCEPT ![t] = "store"]
    /\ UNCHANGED <<input_lines, worker_count, adder, chunks, main_pc, spawned, joined, sum, mutex,
                   poisoned, th_i, add_result>>
    /\ UNCHANGED <<engineVars, extVars>>

\* *sum += adder(line): the addition and the write; on u32 overflow a build
\* with overflow checks panics while holding the guard (the mutex is poisoned
\* and released), a build without them wraps
Store(t) ==
    /\ th_pc[t] = "store"
    /\ LET v == th_tmp[t] + adder[chunks[t][th_i[t]]] IN
       \/ /\ v <= U32Max
          /\ sum' = v
          /\ th_pc' = [th_pc EXCEPT ![t] = "unlock"]
          /\ UNCHANGED <<mutex, poisoned>>
       \/ /\ v > U32Max
          /\ sum' = v % (U32Max + 1)
          /\ th_pc' = [th_pc EXCEPT ![t] = "unlock"]
          /\ UNCHANGED <<mutex, poisoned>>
       \/ /\ v > U32Max
          /\ sum' = sum
          /\ th_pc' = [th_pc EXCEPT ![t] = "panicked"]
          /\ poisoned' = TRUE
          /\ mutex' = IF mutex = t THEN 0 ELSE mutex
    /\ UNCHANGED <<input_lines, worker_count, adder, chunks, main_pc, spawned, joined, th_i, th_tmp,
                   add_result>>
    /\ UNCHANGED <<engineVars, extVars>>

\* the guard is dropped at the end of the loop body; next line or thread end
Unlock(t) ==
    /\ th_pc[t] = "unlock"
    /\ mutex' = IF mutex = t THEN 0 ELSE mutex
    /\ th_i' = [th_i EXCEPT ![t] = th_i[t] + 1]
    /\ th_pc' = [th_pc EXCEPT ![t] = IF th_i[t] + 1 > Len(chunks[t]) THEN "done" ELSE "lock"]
    /\ UNCHANGED <<input_lines, worker_count, adder, chunks, main_pc, spawned, joined, sum, poisoned,
                   th_tmp, add_result>>
    /\ UNCHANGED <<engineVars, extVars>>

\* handle.join().unwrap() on the next handle: waits for that worker; panics if it panicked
Join ==
    /\ main_pc = "join"
    /\ joined < Len(chunks)
    /\ th_pc[joined + 1] \in {"done", "panicked"}
    /\ IF th_pc[joined + 1] = "done"
       THEN joined' = joined + 1 /\ main_pc' = main_pc
       ELSE joined' = joined /\ main_pc' = "panicked"
    /\ UNCHANGED <<input_lines, worker_count, adder, chunks, spawned, sum, mutex, poisoned,
                   th_pc, th_i, th_tmp, add_result>>
    /\ UNCHANGED <<engineVars, extVars>>

\* let result = *sum.lock().unwrap(); result
ReadResult ==
    /\ main_pc = "join"
    /\ joined = Len(chunks)
    /\ MutexFree
    /\ IF poisoned
       THEN main_pc' = "panicked" /\ add_result' = add_result
       ELSE main_pc' = "done" /\ add_result' = sum
    /\ UNCHANGED <<input_lines, worker_count, adder, chunks, spawned, joined, sum, mutex, poisoned,
                   th_pc, th_i, th_tmp>>
    /\ UNCHANGED <<engineVars, extVars>>

NextAdd ==
    \/ Spawn
    \/ \E t \in Threads : Lock(t)
    \/ \E t \in Threads : Load(t)
    \/ \E t \in Threads : Store(t)
    \/ \E t \in Threads : Unlock(t)
    \/ Join
    \/ ReadResult

SpecAdd == InitAdd /\ [][NextAdd]_vars

-----------------------------------------------------------------------------
(* Texts of the line-oriented days: str::split and the parse of unsigned    *)
(* integers.                                                                *)

DecimalDigits == <<"0", "1", "2", "3", "4", "5", "6", "7", "8", "9">>
IsDecimalDigit(c) == \E i \in 1..Len(DecimalDigits) : DecimalDigits[i] = c
DigitValue(c) == (CHOOSE i \in 1..Len(DecimalDigits) : DecimalDigits[i] = c) - 1

\* str::split(sep) for a non-empty separator: the pieces between the
\* non-overlapping occurrences of sep, found left to right; from is the start
\* of the current piece and i the position scanned
RECURSIVE SplitFrom(_, _, _, _)
SplitFrom(s, sep, from, i) ==
    IF i + Len(sep) - 1 > Len(s) THEN <<SubSeq(s, from, Len(s))>>
    ELSE IF SubSeq(s, i, i + Len(sep) - 1) = sep
    THEN <<SubSeq(s, from, i - 1)>> \o SplitFrom(s, sep, i + Len(sep), i + Len(sep))
    ELSE SplitFrom(s, sep, from, i + 1)

StrSplit(s, sep) == SplitFrom(s, sep, 1, 1)

\* the value of a run of decimal digits, NotANumber if another character occurs
NotANumber == 0 - 1
RECURSIVE DigitsValue(_, _)
DigitsValue(s, acc) ==
    IF s = <<>> THEN acc
    ELSE IF ~IsDecimalDigit(Head(s)) THEN NotANumber
    ELSE DigitsValue(Tail(s), 10 * acc + DigitValue(Head(s)))

\* str::parse::<usize>(): an optional "+", then at least one decimal digit
ParseUnsigned(s) ==
    LET body == IF s # <<>> /\ Head(s) = "+" THEN Tail(s) ELSE s IN
    IF body = <<>> THEN NotANumber ELSE DigitsValue(body, 0)

\* str::parse::<u32>(): as above, and an error when the value exceeds the type
ParseU32(s) ==
    LET v == ParseUnsigned(s) IN IF v > U32Max THEN NotANumber ELSE v

-----------------------------------------------------------------------------
(* day-02/src/lib.rs: Cube, CubeCollection, Game and games_from_lines       *)

Cubes == {"Red", "Green", "Blue"}

InvalidCubeColorMsg == "invalid cube color"
InvalidCubeCountMsg == "invalid cube count"
RepeatedColorMsg == "repeated color in draw stats"
InvalidGameStructureMsg == "invalid game structure"
InvalidGameIdMsg == "invalid game id"

\* Cube::from_str; "" when the text names no cube
CubeFromStr(s) ==
    IF s = <<"r", "e", "d">> THEN "Red"
    ELSE IF s = <<"g", "r", "e", "e", "n">> THEN "Green"
    ELSE IF s = <<"b", "l", "u", "e">> THEN "Blue"
    ELSE ""

\* the HashMap<Cube, u32> of a CubeCollection: the count of each recorded
\* cube, Absent for a cube with no entry
Absent == 0 - 1
NoStats == [cube \in Cubes |-> Absent]
Recorded(stats) == { cube \in Cubes : stats[cube] # Absent }

\* the loop of CubeCollection::from_str over the pieces of split(", ")
RECURSIVE CollectStats(_, _, _)
CollectStats(pieces, k, stats) ==
    IF k > Len(pieces) THEN [err |-> "", stats |-> stats]
    ELSE LET words == StrSplit(pieces[k], <<" ">>) IN
         IF Len(words) # 2 THEN [err |-> InvalidGameStructureMsg, stats |-> NoStats]
         ELSE LET cube == CubeFromStr(words[2])
                  count == ParseU32(words[1])
              IN IF cube = "" THEN [err |-> InvalidCubeColorMsg, stats |-> NoStats]
                 ELSE IF count = NotANumber THEN [err |-> InvalidCubeCountMsg, stats |-> NoStats]
                 ELSE IF stats[cube] # Absent THEN [err |-> RepeatedColorMsg, stats |-> NoStats]
                 ELSE CollectStats(pieces, k + 1, [stats EXCEPT ![cube] = count])

CubeCollectionFromStr(s) == CollectStats(StrSplit(s, <<",", " ">>), 1, NoStats)

\* parse_id; NotANumber stands for an error, reported by ParseIdErr
ParseId(s) ==
    LET words == StrSplit(s, <<" ">>) IN
    IF Len(words) = 2 /\ words[1] = <<"G", "a", "m", "e">> THEN ParseU32(words[2]) ELSE NotANumber

ParseIdErr(s) ==
    LET words == StrSplit(s, <<" ">>) IN
    IF Len(words) = 2 /\ words[1] = <<"G", "a", "m", "e">> THEN InvalidGameIdMsg
    ELSE InvalidGameStructureMsg

\* the loop of parse_draws over the pieces of split("; ")
RECURSIVE CollectDraws(_, _, _)
CollectDraws(pieces, k, draws) ==
    IF k > Len(pieces) THEN [err |-> "", draws |-> draws]
    ELSE LET cube_collection == CubeCollectionFromStr(pieces[k]) IN
         IF cube_collection.err # "" THEN [err |-> cube_collection.err, draws |-> <<>>]
         ELSE CollectDraws(pieces, k + 1, Append(draws, cube_collection.stats))

ParseDraws(s) == CollectDraws(StrSplit(s, <<";", " ">>), 1, <<>>)

\* Game::from_str: err is "" for Ok(Game { id, draws })
NoGame(msg) == [err |-> msg, id |-> 0, draws |-> <<>>]
GameFromStr(s) ==
    LET parts == StrSplit(s, <<":", " ">>) IN
    IF Len(parts) # 2 THEN NoGame(InvalidGameStructureMsg)
    ELSE IF ParseId(parts[1]) = NotANumber THEN NoGame(ParseIdErr(parts[1]))
    ELSE LET draws == ParseDraws(parts[2]) IN
         IF draws.err # "" THEN NoGame(draws.err)
         ELSE [err |-> "", id |-> ParseId(parts[1]), draws |-> draws.draws]

\* the lines given to games_from_lines: three games and a line whose id is
\* not a number
GameLineSamples ==
    { <<"G", "a", "m", "e", " ", "1", ":", " ", "3", " ", "b", "l", "u", "e", ",", " ", "4", " ", "r", "e", "d", ";", " ", "1", " ", "r", "e", "d">>,
      <<"G", "a", "m", "e", " ", "2", ":", " ", "2", " ", "g", "r", "e", "e", "n">>,
      <<"G", "a", "m", "e", " ", "3", ":", " ", "1", " ", "r", "e", "d">>,
      <<"G", "a", "m", "e", " ", "X", ":", " ", "1", " ", "r", "e", "d">> }

\* the engine and add_over_lines are not used
OtherDaysIdle ==
    /\ content = <<>>
    /\ part_number_pattern = NumPattern
    /\ symbol_pattern = SymPattern
    /\ EngineIdle
    /\ AddIdle

GameThreads == 1..Len(game_chunks)

InitGames ==
    /\ game_lines \in UNION { [1..n -> GameLineSamples] : n \in 0..MaxLines }
    /\ game_workers \in 1..MaxWorkers
    /\ game_chunks = Chunks(game_lines, game_workers)
    /\ games_pc = "spawn"
    /\ games_spawned = 0
    /\ games_joined = 0
    /\ games = <<>>
    /\ games_result = "none"
    /\ gth_pc = [t \in 1..Len(game_chunks) |-> "run"]
    /\ gth_i = [t \in 1..Len(game_chunks) |-> 1]
    /\ gth_games = [t \in 1..Len(game_chunks) |-> <<>>]
    /\ gth_err = [t \in 1..Len(game_chunks) |-> ""]
    /\ OtherDaysIdle
    /\ CardsIdle
    /\ MapIdle
    /\ BagIdle

\* handles.push(s.spawn(..)) for the next chunk; after the last chunk main joins
SpawnGames ==
    /\ games_pc = "spawn"
    /\ IF games_spawned < Len(game_chunks)
       THEN games_spawned' = games_spawned + 1 /\ games_pc' = games_pc
       ELSE games_spawned' = games_spawned /\ games_pc' = "join"
    /\ UNCHANGED <<game_lines, game_workers, game_chunks, games_joined, games, games_result,
                   gth_pc, gth_i, gth_games, gth_err>>
    /\ UNCHANGED outsideGames

\* worker t: the next item of chunk.iter().map(Game::from_str) taken by
\* collect::<Result<Vec<Game>, ParseError>>(), which stops at the first Err
ParseLine(t) ==
    /\ t <= games_spawned
    /\ gth_pc[t] = "run"
    /\ LET game == GameFromStr(game_chunks[t][gth_i[t]]) IN
       IF game.err # ""
       THEN /\ gth_err' = [gth_err EXCEPT ![t] = game.err]
            /\ gth_pc' = [gth_pc EXCEPT ![t] = "done"]
            /\ UNCHANGED <<gth_i, gth_games>>
       ELSE /\ gth_games' = [gth_games EXCEPT ![t] = Append(gth_games[t], [id |-> game.id, draws |-> game.draws])]
            /\ gth_i' = [gth_i EXCEPT ![t] = gth_i[t] + 1]
            /\ gth_pc' = [gth_pc EXCEPT ![t] = IF gth_i[t] + 1 > Len(game_chunks[t]) THEN "done" ELSE "run"]
            /\ UNCHANGED gth_err
    /\ UNCHANGED <<game_lines, game_workers, game_chunks, games_pc, games_spawned, games_joined,
                   games, games_result>>
    /\ UNCHANGED outsideGames

\* mutant: the chunk's games are put in front of the games joined before
AppendChunk_InFront(joined_games, chunk_game) == chunk_game \o joined_games

\* games.append(&mut chunk_game)
AppendChunk(joined_games, chunk_game) == joined_games \o chunk_game

\* handle.join().unwrap()? on the next handle: waits for that worker; its Err
\* is returned at once, its games are appended
JoinGames ==
    /\ games_pc = "join"
    /\ games_joined < Len(game_chunks)
    /\ gth_pc[games_joined + 1] = "done"
    /\ IF gth_err[games_joined + 1] = ""
       THEN /\ games' = AppendChunk(games, gth_games[games_joined + 1])
            /\ games_joined' = games_joined + 1
            /\ UNCHANGED <<games_pc, games_result>>
       ELSE /\ games_result' = gth_err[games_joined + 1]
            /\ games_pc' = "exit"
            /\ UNCHANGED <<games, games_joined>>
    /\ UNCHANGED <<game_lines, game_workers, game_chunks, games_spawned,
                   gth_pc, gth_i, gth_games, gth_err>>
    /\ UNCHANGED outsideGames

\* Ok(games) after the last handle
ReturnGames ==
    /\ games_pc = "join"
    /\ games_joined = Len(game_chunks)
    /\ games_result' = "Ok"
    /\ games_pc' = "exit"
    /\ UNCHANGED <<game_lines, game_workers, game_chunks, games_spawned, games_joined, games,
                   gth_pc, gth_i, gth_games, gth_err>>
    /\ UNCHANGED outsideGames

\* thread::scope returns once every spawned worker has finished
ScopeExit ==
    /\ games_pc = "exit"
    /\ \A t \in 1..games_spawned : gth_pc[t] = "done"
    /\ games_pc' = "done"
    /\ UNCHANGED <<game_lines, game_workers, game_chunks, games_spawned, games_joined, games,
                   games_result, gth_pc, gth_i, gth_games, gth_err>>
    /\ UNCHANGED outsideGames

NextGames ==
    \/ SpawnGames
    \/ \E t \in GameThreads : ParseLine(t)
    \/ JoinGames
    \/ ReturnGames
    \/ ScopeExit

SpecGames == InitGames /\ [][NextGames]_vars

-----------------------------------------------------------------------------
(* day-02/src/lib.rs: CubeCollection::contains, Game::is_possible           *)

MaxDraws == 2

\* mutant: the cubes of the other collection are walked instead
Contains_OverOther(self_stats, other_stats) ==
    \A cube \in Recorded(other_stats) :
        LET count == IF self_stats[cube] = Absent THEN 0 ELSE self_stats[cube]
        IN ~(other_stats[cube] > count)

\* CubeCollection::contains(&self, other): false at the first entry of
\* self.stats whose count other exceeds, in whatever order the map is walked
Contains(self_stats, other_stats) ==
    \A cube \in Recorded(self_stats) :
        LET other_count == IF other_stats[cube] = Absent THEN 0 ELSE other_stats[cube]
        IN ~(other_count > self_stats[cube])

\* the contains calls of self.draws.iter().all(..) from draw k on: all stops at
\* the first false
RECURSIVE AllContained(_, _, _)
AllContained(bag, ds, k) ==
    IF k > Len(ds) THEN <<>>
    ELSE IF Contains(bag, ds[k]) THEN <<TRUE>> \o AllContained(bag, ds, k + 1)
    ELSE <<FALSE>>

\* the counts a collection records
CubeCounts == {1, 2}
Collections == [Cubes -> {Absent} \cup CubeCounts]

InitBag ==
    /\ cubes_in_bag \in Collections
    /\ game_draws \in UNION { [1..n -> Collections] : n \in 0..MaxDraws }
    /\ contains_results = <<>>
    /\ is_possible_called = FALSE
    /\ is_possible = FALSE
    /\ OtherDaysIdle
    /\ GamesIdle
    /\ CardsIdle
    /\ MapIdle

\* Game::is_possible(&self, cubes_in_bag)
IsPossible ==
    /\ ~is_possible_called
    /\ is_possible_called' = TRUE
    /\ contains_results' = AllContained(cubes_in_bag, game_draws, 1)
    /\ is_possible' = (\A k \in 1..Len(contains_results') : contains_results'[k])
    /\ UNCHANGED <<cubes_in_bag, game_draws>>
    /\ UNCHANGED outsideBag

NextBag == IsPossible

SpecBag == InitBag /\ [][NextBag]_vars

-----------------------------------------------------------------------------
(* day-04/src/lib.rs: Card, CardCollection                                  *)

MaxCards == 4

NonEmptyPieces(s, sep) == SelectSeq(StrSplit(s, sep), LAMBDA piece : piece # <<>>)

\* Card::parse_card_id; NotANumber stands for Err
ParseCardId(s) ==
    LET words == NonEmptyPieces(s, <<" ">>) IN
    IF Len(words) = 2 /\ words[1] = <<"C", "a", "r", "d">> THEN ParseUnsigned(words[2])
    ELSE NotANumber

\* Card::parse_numbers: ok is FALSE when a piece is not a u32
ParseNumbers(s) ==
    LET words == NonEmptyPieces(s, <<" ">>) IN
    [ok |-> \A k \in 1..Len(words) : ParseU32(words[k]) # NotANumber,
     set |-> { ParseU32(words[k]) : k \in 1..Len(words) }]

\* Card::from_str: ok is FALSE for Err(ParseError(..))
NoCard == [ok |-> FALSE, id |-> 0, winning_numbers |-> {}, numbers |-> {}, copies |-> 0]
CardFromStr(s) ==
    LET frags == StrSplit(s, <<":">>) IN
    IF Len(frags) # 2 THEN NoCard
    ELSE IF ParseCardId(frags[1]) = NotANumber THEN NoCard
    ELSE LET number_frags == StrSplit(frags[2], <<"|">>) IN
         IF Len(number_frags) # 2 THEN NoCard
         ELSE LET winning_numbers == ParseNumbers(number_frags[1])
                  numbers == ParseNumbers(number_frags[2])
              IN IF ~winning_numbers.ok \/ ~numbers.ok THEN NoCard
                 ELSE [ok |-> TRUE, id |-> ParseCardId(frags[1]),
                       winning_numbers |-> winning_numbers.set,
                       numbers |-> numbers.set, copies |-> 1]

\* Card::hits_count
HitsCount(card) == Cardinality(card.winning_numbers \cap card.numbers)

\* a worker's chunk.iter().map(Card::from_str).collect(): the cards of the
\* chunk, or Err at its first line that does not parse
RECURSIVE CollectCards(_, _, _)
CollectCards(chunk, k, chunk_cards) ==
    IF k > Len(chunk) THEN [ok |-> TRUE, cards |-> chunk_cards]
    ELSE LET card == CardFromStr(chunk[k]) IN
         IF ~card.ok THEN [ok |-> FALSE, cards |-> <<>>]
         ELSE CollectCards(chunk, k + 1, Append(chunk_cards, card))

\* the join loop of cards_from_lines: the handles in spawn order, the first
\* Err returned, each chunk's cards appended
RECURSIVE JoinCards(_, _, _)
JoinCards(card_chunks, k, joined_cards) ==
    IF k > Len(card_chunks) THEN [ok |-> TRUE, cards |-> joined_cards]
    ELSE LET chunk_cards == CollectCards(card_chunks[k], 1, <<>>) IN
         IF ~chunk_cards.ok THEN [ok |-> FALSE, cards |-> <<>>]
         ELSE JoinCards(card_chunks, k + 1, joined_cards \o chunk_cards.cards)

CardsFromLines(ls, workers) == JoinCards(Chunks(ls, workers), 1, <<>>)

\* for card in &mut self.cards[start..end] { card.copy() }, run times times
RECURSIVE CopyTimes(_, _, _, _)
CopyTimes(cs, start, end, times) ==
    IF times = 0 THEN cs
    ELSE CopyTimes([j \in 1..Len(cs) |->
                       IF start <= j - 1 /\ j - 1 < end
                       THEN [cs[j] EXCEPT !.copies = @ + 1] ELSE cs[j]],
                   start, end, times - 1)

\* the loop of increment_copies over i in 0..cards_count - 1, from i on
RECURSIVE IncrementFrom(_, _)
IncrementFrom(cs, i) ==
    LET cards_count == Len(cs) IN
    IF i >= cards_count - 1 THEN cs
    ELSE LET card == cs[i + 1]
             hits_count == HitsCount(card)
             start == Min(cards_count, i + 1)
             end == Min(cards_count, start + hits_count)
         IN IncrementFrom(CopyTimes(cs, start, end, card.copies), i + 1)

SubtractOverflowMsg == "attempt to subtract with overflow"
IndexOutOfBoundsMsg == "index out of bounds: the len is 0 but the index is 0"

\* the outcomes of increment_copies: for an empty collection cards_count - 1
\* underflows usize, which panics in a build with overflow checks and wraps to
\* usize::MAX in a build without them, where self.cards[0] then panics
IncrementCopiesOutcomes(cs) ==
    IF Len(cs) = 0
    THEN { [panic |-> SubtractOverflowMsg, cards |-> <<>>],
           [panic |-> IndexOutOfBoundsMsg, cards |-> <<>>] }
    ELSE { [panic |-> "", cards |-> IncrementFrom(cs, 0)] }

\* the lines given to from_lines: cards with 3, 2, 1 and 0 hits and a line
\* with a number that does not parse
CardLineSamples ==
    { <<"C", "a", "r", "d", " ", "1", ":", " ", "1", " ", "2", " ", "3", " ", "|", " ", "3", " ", "2", " ", "1">>,
      <<"C", "a", "r", "d", " ", "2", ":", " ", "1", " ", "2", " ", "|", " ", "1", " ", "2", " ", "3">>,
      <<"C", "a", "r", "d", " ", "3", ":", " ", " ", "1", " ", "|", " ", "1", " ", "3">>,
      <<"C", "a", "r", "d", " ", "4", ":", " ", "1", " ", "|", " ", "2">>,
      <<"C", "a", "r", "d", " ", "5", ":", " ", "x", " ", "|", " ", "1">> }

InitCards ==
    /\ card_lines \in UNION { [1..n -> CardLineSamples] : n \in 0..MaxCards }
    /\ workers_count \in 1..MaxWorkers
    /\ from_lines_result = "none"
    /\ cards = <<>>
    /\ total_copies_result = 0
    /\ OtherDaysIdle
    /\ GamesIdle
    /\ MapIdle
    /\ BagIdle

\* CardCollection::from_lines(lines, workers_count)
FromLines ==
    /\ from_lines_result = "none"
    /\ LET parsed == CardsFromLines(card_lines, workers_count) IN
       IF ~parsed.ok
       THEN from_lines_result' = "Err" /\ cards' = <<>>
       ELSE \E outcome \in IncrementCopiesOutcomes(parsed.cards) :
               /\ from_lines_result' = IF outcome.panic = "" THEN "Ok" ELSE outcome.panic
               /\ cards' = outcome.cards
    /\ UNCHANGED <<card_lines, workers_count, total_copies_result>>
    /\ UNCHANGED outsideCards

\* CardCollection::total_copies on the collection from_lines returned
RECURSIVE SumCopies(_, _)
SumCopies(cs, k) == IF k > Len(cs) THEN 0 ELSE cs[k].copies + SumCopies(cs, k + 1)

TotalCopies ==
    /\ from_lines_result = "Ok"
    /\ total_copies_result = 0
    /\ total_copies_result' = SumCopies(cards, 1)
    /\ UNCHANGED <<card_lines, workers_count, from_lines_result, cards>>
    /\ UNCHANGED outsideCards

NextCards == FromLines \/ TotalCopies

SpecCards == InitCards /\ [][NextCards]_vars

-----------------------------------------------------------------------------
(* day-05/src/lib.rs: Range::get_destination, CategoryMap::get_destination  *)

MaxRanges == 2

\* a + b in u32: the sum when it fits; otherwise a panic in a build with
\* overflow checks and the sum modulo 2^w in a build without them
AddU32(a, b, checks) ==
    IF a + b <= U32Max THEN [panic |-> FALSE, value |-> a + b]
    ELSE IF checks THEN [panic |-> TRUE, value |-> 0]
    ELSE [panic |-> FALSE, value |-> (a + b) % (U32Max + 1)]

\* Option<u32> results of Range::get_destination
NoDestination == [panic |-> FALSE, some |-> FALSE, value |-> 0]
DestinationPanic == [panic |-> TRUE, some |-> FALSE, value |-> 0]

\* Range::get_destination(&self, source)
RangeGetDestination(range, src, checks) ==
    LET source_end == AddU32(range.source_start, range.length, checks) IN
    IF source_end.panic THEN DestinationPanic
    ELSE IF src >= range.source_start /\ src < source_end.value
    THEN LET offset == src - range.source_start
             dest == AddU32(range.destination_start, offset, checks)
         IN IF dest.panic THEN DestinationPanic
            ELSE [panic |-> FALSE, some |-> TRUE, value |-> dest.value]
    ELSE NoDestination

\* self.ranges.iter().find_map(|r| r.get_destination(source)), from range k on
RECURSIVE FindMap(_, _, _, _)
FindMap(rs, k, src, checks) ==
    IF k > Len(rs) THEN NoDestination
    ELSE LET found == RangeGetDestination(rs[k], src, checks) IN
         IF found.panic \/ found.some THEN found ELSE FindMap(rs, k + 1, src, checks)

\* CategoryMap::get_destination(&self, source): .unwrap_or(source)
CategoryMapGetDestination(rs, src, checks) ==
    LET found == FindMap(rs, 1, src, checks) IN
    IF found.panic THEN found
    ELSE IF found.some THEN found
    ELSE [panic |-> FALSE, some |-> FALSE, value |-> src]

\* the u32 values of the fields and of the source: the ends of the domain
U32Values == {0, 1, U32Max - 1, U32Max}

Ranges == [destination_start : U32Values, source_start : U32Values, length : U32Values]

\* a CategoryMap has at least one range (CategoryMap::from_str rejects none)
InitMap ==
    /\ ranges \in UNION { [1..n -> Ranges] : n \in 1..MaxRanges }
    /\ source \in U32Values
    /\ overflow_checks \in BOOLEAN
    /\ get_destination_result = "none"
    /\ destination = 0
    /\ OtherDaysIdle
    /\ GamesIdle
    /\ CardsIdle
    /\ BagIdle

\* CategoryMap::get_destination(source)
GetDestination ==
    /\ get_destination_result = "none"
    /\ LET r == CategoryMapGetDestination(ranges, source, overflow_checks) IN
       /\ get_destination_result' = IF r.panic THEN "panicked" ELSE "returned"
       /\ destination' = r.value
    /\ UNCHANGED <<ranges, source, overflow_checks>>
    /\ UNCHANGED outsideMap

NextMap == GetDestination

SpecMap == InitMap /\ [][NextMap]_vars

-----------------------------------------------------------------------------
(* Vocabulary of the properties: the grid as cells, stated without the     *)
(* operators of the model above.                                           *)

Height == Len(schematic.lines)
Width == schematic.line_length
Cell(r, c) == schematic.lines[r + 1][c + 1]
IsDigitCell(r, c) == Cell(r, c) \in Digits

\* the maximal digit runs of row r, as <<start, end>> with end exclusive
DigitRuns(r) ==
    { se \in (0..(Width - 1)) \X (1..Width) :
        /\ se[1] < se[2]
        /\ \A c \in se[1]..(se[2] - 1) : IsDigitCell(r, c)
        /\ (se[1] = 0 \/ ~IsDigitCell(r, se[1] - 1))
        /\ (se[2] = Width \/ ~IsDigitCell(r, se[2])) }

\* the in-grid 8-neighbour cells of the run <<start, end>> of row r
NeighbourCells(r, se) ==
    { rc \in (Max(0, r - 1)..Min(Height - 1, r + 1)) \X (Max(0, se[1] - 1)..Min(Width - 1, se[2])) :
        ~(rc[1] = r /\ se[1] <= rc[2] /\ rc[2] < se[2]) }

\* a symbol character is one the program's symbol pattern [^\.^\d] matches
IsSymbolChar(c) == c \notin {".", "^"} /\ c \notin Digits

HasSymbolNeighbour(r, se) == \E rc \in NeighbourCells(r, se) : IsSymbolChar(Cell(rc[1], rc[2]))

Span(pn) == <<pn.num_match.start, pn.num_match.end>>
Bucket(r) == schematic.part_numbers[r + 1]
BucketSpans(r) == { Span(Bucket(r)[k]) : k \in 1..Len(Bucket(r)) }
Increasing(bucket) ==
    \A k \in 1..(Len(bucket) - 1) : bucket[k].num_match.start < bucket[k + 1].num_match.start

\* C1: after a successful build, bucket r of the part catalog holds exactly the
\* maximal digit runs of row r that have a symbol character among their in-grid
\* 8-neighbour cells, in increasing start column; runs without one are excluded.
C1_CatalogIsAdjacentRuns ==
    build_result = "ok" =>
        /\ Len(schematic.part_numbers) = Height
        /\ \A r \in 0..(Height - 1) :
            /\ BucketSpans(r) = { se \in DigitRuns(r) : HasSymbolNeighbour(r, se) }
            /\ Increasing(Bucket(r))
            /\ \A k \in 1..Len(Bucket(r)) :
                 Bucket(r)[k].num_match.text
                   = [i \in 1..(Bucket(r)[k].num_match.end - Bucket(r)[k].num_match.start)
                        |-> Cell(r, Bucket(r)[k].num_match.start + i - 1)]

\* a grid with one run kept only for a diagonal symbol and another run dropped
C1_Witness ==
    /\ build_result = "ok"
    /\ \E r \in 0..(Height - 1) : \E se \in DigitRuns(r) : ~HasSymbolNeighbour(r, se)
    /\ \E r \in 0..(Height - 1) : \E se \in BucketSpans(r) :
         \A rc \in NeighbourCells(r, se) :
            IsSymbolChar(Cell(rc[1], rc[2])) => (rc[1] # r /\ (rc[2] = se[1] - 1 \/ rc[2] = se[2]))


-----------------------------------------------------------------------------
\* the occurrences of the pairing symbol '*' in row r, as matches
GearAt(c) == [start |-> c, end |-> c + 1, text |-> <<"*">>]
GearCols(r) == { c \in 0..(Width - 1) : Cell(r, c) = "*" }

\* the expanded window of a token: one column wider on each side, clipped
Window(pn) == <<Max(0, pn.num_match.start - 1), Min(Width, pn.num_match.end + 1)>>

\* the window-containment adjacency test of a token against the symbol at (r, c)
WindowTest(pn, r, c) ==
    /\ pn.line_index - r \in {-1, 0, 1}
    /\ Window(pn)[1] <= c
    /\ c + 1 <= Window(pn)[2]

\* the catalog tokens of the row band of row r
BandTokens(r) ==
    UNION { { Bucket(l)[k] : k \in 1..Len(Bucket(l)) } : l \in Max(0, r - 1)..Min(Height - 1, r + 1) }

AdjacentTokens(r, c) == { pn \in BandTokens(r) : WindowTest(pn, r, c) }

PairFor(r, c) == GetNumberPairForGear(schematic, GearAt(c), r)

\* C2: for every pairing-symbol occurrence, get_number_pair_for_gear returns a
\* pair iff exactly two distinct catalog tokens of the symbol's row band pass the
\* window-containment test; the returned two are those tokens, and with zero,
\* one, three or more adjacent tokens there is no pair.
C2_PairIffExactlyTwo ==
    build_result = "ok" =>
        \A r \in 0..(Height - 1) : \A c \in GearCols(r) :
            /\ (PairFor(r, c) # None) <=> (Cardinality(AdjacentTokens(r, c)) = 2)
            /\ PairFor(r, c) # None =>
                 /\ Len(PairFor(r, c)) = 2
                 /\ PairFor(r, c)[1] # PairFor(r, c)[2]
                 /\ {PairFor(r, c)[1], PairFor(r, c)[2]} = AdjacentTokens(r, c)

\* one queried grid holding a symbol with exactly two adjacent tokens (a pair)
\* and a symbol with three or more (no pair)
C2_Witness ==
    /\ build_result = "ok"
    /\ queries > 0
    /\ \E r \in 0..(Height - 1) : \E c \in GearCols(r) :
         Cardinality(AdjacentTokens(r, c)) = 2 /\ PairFor(r, c) # None
    /\ \E r \in 0..(Height - 1) : \E c \in GearCols(r) :
         Cardinality(AdjacentTokens(r, c)) >= 3 /\ PairFor(r, c) = None

\* C3: with the symbol pattern the program passes to build, every character
\* that is neither a digit nor the filler '.' is matched as a symbol, so such a
\* character in a neighbouring cell of a numeric token makes it a part number.
C3_EveryNonDigitNonFillerIsSymbol ==
    build_result = "ok" =>
        \A r \in 0..(Height - 1) : \A se \in DigitRuns(r) :
            \A rc \in NeighbourCells(r, se) :
                Cell(rc[1], rc[2]) \notin (Digits \cup {"."}) =>
                    /\ IsMatch(symbol_pattern, <<Cell(rc[1], rc[2])>>)
                    /\ se \in BucketSpans(r)

\* C4: every schematic a successful build returns has height > 0, width > 0
\* and rows all of length width.
C4_GridInvariant ==
    build_result = "ok" =>
        /\ Len(schematic.lines) > 0
        /\ schematic.line_length > 0
        /\ \A i \in 1..Len(schematic.lines) : Len(schematic.lines[i]) = schematic.line_length

\* the rows of the input text, by the positions of its line breaks
RowStarts == { i \in 1..Len(content) : i = 1 \/ content[i - 1] = NL }
RowEnd(i) ==
    IF \E j \in i..Len(content) : content[j] = NL
    THEN (CHOOSE j \in i..Len(content) : content[j] = NL /\ \A k \in i..(j - 1) : content[k] # NL) - 1
    ELSE Len(content)
RowText(i) == [k \in 1..(RowEnd(i) - i + 1) |-> content[i + k - 1]]
FirstRowLength == RowEnd(1)
Regular == \A i \in RowStarts : RowEnd(i) - i + 1 = FirstRowLength

\* C5: build is all-or-nothing: an error and no schematic when the content has
\* zero rows, a row whose length differs from the first row's, or a pattern that
\* fails to compile; otherwise a schematic holding every row of the content.
C5_BuildAllOrNothing ==
    builds > 0 =>
        /\ build_result \in {"ok", EmptyInputMsg, IrregularMsg, BadNumPatternMsg, BadSymPatternMsg}
        /\ (build_result # "ok") <=>
              \/ RowStarts = {}
              \/ ~Regular
              \/ ~RegexNew(part_number_pattern)
              \/ ~RegexNew(symbol_pattern)
        /\ build_result # "ok" => schematic = NoSchematic
        /\ build_result = "ok" =>
              /\ schematic.built
              /\ Len(schematic.lines) = Cardinality(RowStarts)
              /\ \A i \in RowStarts :
                    schematic.lines[Cardinality({j \in RowStarts : j <= i})] = RowText(i)
              /\ Len(schematic.part_numbers) = Cardinality(RowStarts)

\* an irregular text whose first two rows agree is rejected whole
C5_Witness ==
    /\ build_result = IrregularMsg
    /\ schematic = NoSchematic
    /\ Cardinality(RowStarts) >= 3
    /\ \E i \in RowStarts : i > 1 /\ RowEnd(i) - i + 1 = FirstRowLength


-----------------------------------------------------------------------------
\* every index the build pass and the query evaluate on the built schematic
AllReads ==
    SetPartNumbersReads(schematic.lines, schematic.line_length, part_number_pattern, symbol_pattern)
    \cup GetGearRatiosPairsReads(schematic, GearPattern)

\* C6: on every grid build accepts, each row index read lies in [0, height-1],
\* each column slice lies within [0, width], each catalog slice within
\* [0, height], and no unsigned subtraction underflows, in the adjacency
\* classification and in get_gear_ratios_pairs; neither ever panics.
C6_NoIndexOutOfRange ==
    /\ build_result # "panic"
    /\ ~query_fault
    /\ build_result = "ok" =>
         \A rd \in AllReads :
            /\ rd.kind = "row" => (0 <= rd.lo /\ rd.lo <= Height - 1)
            /\ rd.kind = "cols" => (0 <= rd.lo /\ rd.lo <= rd.hi /\ rd.hi <= Width)
            /\ rd.kind = "catalog" => (0 <= rd.lo /\ rd.lo <= rd.hi /\ rd.hi <= Height)
            /\ rd.kind = "sub" => rd.lo - rd.hi >= 0

\* a queried grid of width 1: a token filling row 0 from column 0 to the last
\* column, and a pairing symbol in the last row
C6_Witness ==
    /\ build_result = "ok"
    /\ queries > 0
    /\ Width = 1
    /\ Height >= 2
    /\ \E k \in 1..Len(Bucket(0)) : Span(Bucket(0)[k]) = <<0, Width>>
    /\ GearCols(Height - 1) # {}
    /\ \E rd \in AllReads : rd.kind = "catalog"

\* the columns of row r whose pairing symbol yields a pair
PairCols(r) == { c \in GearCols(r) : PairFor(r, c) # None }

\* C7: get_gear_ratios_pairs returns one bucket per grid row, empty buckets
\* included; bucket r holds the pairs of the pairing symbols of row r, in
\* increasing column order of those symbols.
C7_PairsGroupedByRowInColumnOrder ==
    (build_result = "ok" /\ queries > 0) =>
        /\ Len(gear_ratios_pairs) = Height
        /\ \A r \in 0..(Height - 1) :
            /\ Len(gear_ratios_pairs[r + 1]) = Cardinality(PairCols(r))
            /\ \A c \in PairCols(r) :
                 gear_ratios_pairs[r + 1][Cardinality({d \in PairCols(r) : d <= c})] = PairFor(r, c)

\* a row with two symbols yielding two different pairs, and a row without any
C7_Witness ==
    /\ build_result = "ok"
    /\ queries > 0
    /\ \E r \in 0..(Height - 1) :
         /\ Cardinality(PairCols(r)) >= 2
         /\ gear_ratios_pairs[r + 1][1] # gear_ratios_pairs[r + 1][2]
    /\ \E r \in 0..(Height - 1) : gear_ratios_pairs[r + 1] = <<>>

\* C8: after a successful build the catalog has one bucket per grid row, rows
\* without part numbers included; every token of bucket r has line_index = r,
\* and the tokens of a bucket do not overlap and start at increasing columns.
C8_OneBucketPerRow ==
    build_result = "ok" =>
        /\ Len(schematic.part_numbers) = Len(schematic.lines)
        /\ \A r \in 1..Len(schematic.part_numbers) :
             LET b == schematic.part_numbers[r] IN
             /\ \A k \in 1..Len(b) : b[k].line_index = r - 1 /\ b[k].num_match.start < b[k].num_match.end
             /\ \A k \in 1..(Len(b) - 1) :
                  /\ b[k].num_match.start < b[k + 1].num_match.start
                  /\ b[k].num_match.end <= b[k + 1].num_match.start

\* a catalog with an empty bucket between rows, and a bucket of two tokens
C8_Witness ==
    /\ build_result = "ok"
    /\ Len(schematic.part_numbers) = 3
    /\ schematic.part_numbers[1] = <<>>
    /\ Len(schematic.part_numbers[2]) = 2
    /\ Len(schematic.part_numbers[3]) = 1

-----------------------------------------------------------------------------
RECURSIVE SumOver(_, _)
SumOver(ls, i) == IF i > Len(ls) THEN 0 ELSE adder[ls[i]] + SumOver(ls, i + 1)

\* the sum of adder(line) over all lines, each counted once
Total == SumOver(input_lines, 1)

\* C10: add_over_lines returns the sum of adder(line) over all lines, each line
\* counted exactly once, for every worker_count >= 1, every number of lines and
\* every interleaving of the workers' lock/add steps, whenever that sum fits in
\* u32: no update to the shared sum is lost, and the call does not panic.
C10_SumOfAllLines ==
    Total <= U32Max =>
        /\ main_pc # "panicked"
        /\ \A t \in Threads : th_pc[t] # "panicked"
        /\ main_pc = "done" => add_result = Total

\* a finished call in which at least two workers added lines to the shared sum
C10_Witness ==
    /\ main_pc = "done"
    /\ Len(chunks) >= 2
    /\ Len(input_lines) >= 3
    /\ Total <= U32Max
    /\ add_result = Total

-----------------------------------------------------------------------------
\* every line of the call parses
AllGameLinesParse == \A i \in 1..Len(game_lines) : GameFromStr(game_lines[i]).err = ""

\* the id written in a sample line: the digit after "Game "
WrittenId(line) == DigitValue(line[6])

\* C11: games_from_lines returns, for every worker_count >= 1 and every
\* completion order of the worker threads, the games in the order of the input
\* lines (game i parsed from line i, none missing, none duplicated) when every
\* line parses, and an error when at least one line fails to parse.
C11_GamesInLineOrder ==
    games_pc = "done" =>
        IF AllGameLinesParse
        THEN /\ games_result = "Ok"
             /\ Len(games) = Len(game_lines)
             /\ \A i \in 1..Len(games) :
                    /\ games[i].id = WrittenId(game_lines[i])
                    /\ games[i].draws = GameFromStr(game_lines[i]).draws
        ELSE games_result \notin {"Ok", "none"}

\* a finished call of three parsed lines, no two alike, split over two workers
C11_Witness ==
    /\ games_pc = "done"
    /\ games_result = "Ok"
    /\ Len(game_chunks) >= 2
    /\ Len(games) = 3
    /\ games[1].id # games[2].id
    /\ games[2].id # games[3].id

-----------------------------------------------------------------------------
\* every line of the call parses
AllCardLinesParse == \A i \in 1..Len(card_lines) : CardFromStr(card_lines[i]).ok

\* the sum of copies over the earlier cards i < j (0-based) that reach card j:
\* j <= i + hits_count(i)
RECURSIVE WonFrom(_, _)
WonFrom(j, i) ==
    IF i >= j THEN 0
    ELSE (IF j <= i + HitsCount(cards[i + 1]) THEN cards[i + 1].copies ELSE 0) + WonFrom(j, i + 1)

RECURSIVE CopiesSum(_)
CopiesSum(k) == IF k > Len(cards) THEN 0 ELSE cards[k].copies + CopiesSum(k + 1)

\* the copy counts satisfy the recurrence, and total_copies is their sum
CopiesRecurrence ==
    /\ Len(cards) = Len(card_lines)
    /\ \A j \in 0..(Len(cards) - 1) : cards[j + 1].copies = 1 + WonFrom(j, 0)
    /\ total_copies_result > 0 => total_copies_result = CopiesSum(1)

\* C12: CardCollection::from_lines, for every sequence of zero or more
\* parseable card lines, completes without panicking and yields copy counts
\* with copies[j] = 1 + the sum of copies[i] over the earlier cards i < j with
\* j <= i + hits_count(i); cards past the end receive nothing; total_copies is
\* the sum of the copy counts.
C12_CopiesRecurrence ==
    (from_lines_result # "none" /\ AllCardLinesParse) =>
        (from_lines_result = "Ok" /\ CopiesRecurrence)

\* the same for one or more parseable lines
NonEmptyCopiesRecurrence ==
    (from_lines_result # "none" /\ AllCardLinesParse /\ Len(card_lines) >= 1) =>
        (from_lines_result = "Ok" /\ CopiesRecurrence)

-----------------------------------------------------------------------------
\* range k covers the source: source_start <= source < source_start + length
Covers(k) ==
    /\ ranges[k].source_start <= source
    /\ source < ranges[k].source_start + ranges[k].length

\* the destination the first listed covering range gives, the source itself
\* when no range covers it
ExpectedDestination ==
    IF \E k \in 1..Len(ranges) : Covers(k)
    THEN LET first == CHOOSE k \in 1..Len(ranges) :
                          Covers(k) /\ \A h \in 1..(k - 1) : ~Covers(h)
         IN ranges[first].destination_start + (source - ranges[first].source_start)
    ELSE source

\* C13: CategoryMap::get_destination(source) returns destination_start +
\* (source - source_start) for the first listed range with source_start <=
\* source < source_start + length, and source unchanged when no range covers
\* it, for all u32 values of source and of the range fields; no u32 addition
\* overflows, in particular not source_start + length for a range that reaches
\* the top of the u32 domain.
C13_DestinationOfFirstCoveringRange ==
    get_destination_result # "none" =>
        /\ get_destination_result = "returned"
        /\ destination = ExpectedDestination

\* the same for maps whose source and destination ranges end below the top of
\* the domain
RangesBelowTop ==
    \A k \in 1..Len(ranges) :
        /\ ranges[k].source_start + ranges[k].length <= U32Max
        /\ ranges[k].destination_start + ranges[k].length <= U32Max

DestinationOfRangesBelowTop ==
    (get_destination_result # "none" /\ RangesBelowTop) =>
        /\ get_destination_result = "returned"
        /\ destination = ExpectedDestination

-----------------------------------------------------------------------------
\* some colour recorded in a has a strictly larger count in b
Exceeds(a, b) == \E cube \in Cubes : a[cube] # Absent /\ b[cube] # Absent /\ b[cube] > a[cube]

\* C14: a.contains(b) is false if and only if some colour recorded in a has a
\* strictly larger count in b; a colour absent from a never makes the result
\* false; Game::is_possible(bag) is true exactly when bag.contains(draw) holds
\* for every draw of the game.
C14_ContainsAndIsPossible ==
    is_possible_called =>
        /\ \A k \in 1..Len(contains_results) :
               contains_results[k] = ~Exceeds(cubes_in_bag, game_draws[k])
        /\ is_possible = (\A k \in 1..Len(game_draws) : ~Exceeds(cubes_in_bag, game_draws[k]))

\* a game found not possible: its first draw is contained although it has a
\* colour the bag does not record, its second draw exceeds a recorded colour
C14_Witness ==
    /\ is_possible_called
    /\ ~is_possible
    /\ contains_results = <<TRUE, FALSE>>
    /\ \E cube \in Cubes : cubes_in_bag[cube] = Absent /\ game_draws[1][cube] # Absent

-----------------------------------------------------------------------------
\* the catalog tokens of the whole grid
CatalogTokens == UNION { { Bucket(r)[k] : k \in 1..Len(Bucket(r)) } : r \in 0..(Height - 1) }

\* C15: get_match_boundary returns, for every match with 0 <= start <= end <=
\* width, the window (max(0, start - 1), min(width, end + 1)): one column wider
\* on each side, clipped to the line.
C15_MatchBoundaryIsClippedWindow ==
    build_result = "ok" =>
        \A start \in 0..Width : \A end \in start..Width :
            GetMatchBoundary([start |-> start, end |-> end, text |-> <<>>], Width)
                = <<Max(0, start - 1), Min(Width, end + 1)>>

\* a built grid with a token at column 0, a token ending at the last column and
\* a token touching neither edge, each classified through its window
C15_Witness ==
    /\ build_result = "ok"
    /\ \E pn \in CatalogTokens : pn.num_match.start = 0 /\ pn.num_match.end < Width
    /\ \E pn \in CatalogTokens : pn.num_match.start > 0 /\ pn.num_match.end = Width
    /\ \E pn \in CatalogTokens : pn.num_match.start > 0 /\ pn.num_match.end < Width

-----------------------------------------------------------------------------
\* the characters the symbol pattern passed to build matches
SymbolPatternMatches(c) == IF symbol_pattern = SymPattern THEN IsSymbolChar(c) ELSE c # "."

\* the in-bounds cells of row r flanking the run <<start, end>>, outside the run
FlankCols(se) == { c \in {se[1] - 1, se[2]} : 0 <= c /\ c < Width }

\* the same-row check build makes for the run <<start, end>> of row r
SameRowResult(r, se) ==
    LineOfMatchHasSymbol(schematic.lines, symbol_pattern, r,
                         GetMatchBoundary([start |-> se[1], end |-> se[2], text |-> <<>>], Width))

\* C16: for a token starting at column 0 the same-row adjacency check omits the
\* left flank, and for a token ending at the last column it omits the right
\* flank: for any symbol pattern the same-row result depends only on the
\* in-bounds flanking cells outside the token, never on a cell of the token.
C16_SameRowUsesFlanksOnly ==
    build_result = "ok" =>
        \A r \in 0..(Height - 1) : \A se \in DigitRuns(r) :
            SameRowResult(r, se) = (\E c \in FlankCols(se) : SymbolPatternMatches(Cell(r, c)))

-----------------------------------------------------------------------------
\* the scan of rows l..last of the band of the symbol at (r, c) with the break
\* removed: every token of every bucket is tested
RECURSIVE ScanWithoutBreak(_, _, _, _)
ScanWithoutBreak(l, last, r, c) ==
    IF l > last THEN <<>>
    ELSE SelectSeq(Bucket(l), LAMBDA pn : HasGearSymbol(pn, GearAt(c), r))
         \o ScanWithoutBreak(l + 1, last, r, c)

PairWithoutBreak(r, c) ==
    LET found == ScanWithoutBreak(Max(0, r - 1), Min(Height - 1, r + 1), r, c)
    IN IF Len(found) = 2 THEN <<found[1], found[2]>> ELSE None

\* C17: the early exit in get_number_pair_for_gear (stop scanning a row once a
\* token's start exceeds the symbol's end) is a pure short-circuit: for every
\* grid and every pairing-symbol occurrence the result equals that of the same
\* scan with the break removed, and the break ends only the current row's scan.
C17_BreakIsShortCircuit ==
    build_result = "ok" =>
        \A r \in 0..(Height - 1) : \A c \in GearCols(r) : PairFor(r, c) = PairWithoutBreak(r, c)

\* a queried grid where the break fires in a row of the band (a catalog token
\* starting after the symbol's end) and the pair's second token lies in a later row
C17_Witness ==
    /\ build_result = "ok"
    /\ queries > 0
    /\ \E r \in 0..(Height - 1) : \E c \in GearCols(r) :
         /\ PairFor(r, c) # None
         /\ \E pn \in BandTokens(r) :
              /\ pn.num_match.start > c + 1
              /\ pn.line_index < PairFor(r, c)[2].line_index

\* the catalog tokens in row-major order: by row, then by start column
Precedes(a, b) ==
    \/ a.line_index < b.line_index
    \/ a.line_index = b.line_index /\ a.num_match.start < b.num_match.start

\* C18: has_gear_symbol declares a token adjacent to a single-character pairing
\* symbol iff their row distance is at most 1 and window.start <= symbol.start
\* and symbol.end <= window.end; for a symbol in a cell the token does not
\* occupy this is the case exactly when the cell is one of the token's
\* 8-neighbour cells.
C18_HasGearSymbolIsEightNeighbour ==
    build_result = "ok" =>
        \A pn \in CatalogTokens : \A r \in 0..(Height - 1) : \A c \in 0..(Width - 1) :
            /\ HasGearSymbol(pn, GearAt(c), r) = WindowTest(pn, r, c)
            /\ ~(r = pn.line_index /\ pn.num_match.start <= c /\ c < pn.num_match.end) =>
                 (HasGearSymbol(pn, GearAt(c), r) = (<<r, c>> \in NeighbourCells(pn.line_index, Span(pn))))

\* a queried grid with a pairing symbol diagonal to one token and, two rows
\* away from another token, in that token's window columns
C18_Witness ==
    /\ build_result = "ok"
    /\ queries > 0
    /\ \E r \in 0..(Height - 1) : \E c \in GearCols(r) : \E pn \in CatalogTokens :
         /\ pn.line_index # r
         /\ c \in {pn.num_match.start - 1, pn.num_match.end}
         /\ HasGearSymbol(pn, GearAt(c), r)
    /\ \E r \in 0..(Height - 1) : \E c \in GearCols(r) : \E pn \in CatalogTokens :
         /\ pn.line_index = r + 2
         /\ Window(pn)[1] <= c /\ c + 1 <= Window(pn)[2]
         /\ ~HasGearSymbol(pn, GearAt(c), r)

\* C19: in every pair returned by get_gear_ratios_pairs the first token
\* precedes the second in row-major order: an earlier row, or the same row and
\* a smaller start column.
C19_PairInRowMajorOrder ==
    (build_result = "ok" /\ queries > 0 /\ ~query_fault) =>
        \A r \in 1..Len(gear_ratios_pairs) : \A k \in 1..Len(gear_ratios_pairs[r]) :
            Precedes(gear_ratios_pairs[r][k][1], gear_ratios_pairs[r][k][2])

\* a returned pair whose first token lies in the row above and further right
\* than the second, and a returned pair of two tokens of one row
C19_Witness ==
    /\ build_result = "ok"
    /\ queries > 0
    /\ \E r \in 1..Len(gear_ratios_pairs) : \E k \in 1..Len(gear_ratios_pairs[r]) :
         /\ gear_ratios_pairs[r][k][1].line_index < gear_ratios_pairs[r][k][2].line_index
         /\ gear_ratios_pairs[r][k][1].num_match.start > gear_ratios_pairs[r][k][2].num_match.start
    /\ \E r \in 1..Len(gear_ratios_pairs) : \E k \in 1..Len(gear_ratios_pairs[r]) :
         gear_ratios_pairs[r][k][1].line_index = gear_ratios_pairs[r][k][2].line_index

-----------------------------------------------------------------------------
\* the rows r-1, r, r+1 that exist
RowBand(r) == Max(0, r - 1)..Min(Height - 1, r + 1)

\* the grids of the dimensions of the built grid that agree with it on the
\* rows of RowBand(r), whatever their other rows contain
GridsAgreeingAround(r) ==
    LET others == (0..(Height - 1)) \ RowBand(r) IN
    { [i \in 1..Height |-> IF i - 1 \in others THEN rows[i - 1] ELSE schematic.lines[i]] :
          rows \in [others -> [1..Width -> GridChars]] }

\* the bucket build pushes for row r of the grid other
BucketOf(other, r) == LinePartNumbers(other, Width, part_number_pattern, symbol_pattern, r)

\* C20: row locality of classification: for any two grids of equal dimensions
\* accepted by build that agree on rows r-1, r and r+1 (those that exist),
\* bucket r of the part catalog is identical in both (same tokens, same
\* order), whatever the other rows contain.
C20_RowLocality ==
    (build_result = "ok" /\ queries = 0) =>
        \A r \in 0..(Height - 1) : \A other \in GridsAgreeingAround(r) :
            BucketOf(other, r) = Bucket(r)

\* a built grid with a token in its first row and a grid agreeing with it on
\* the first two rows whose third row differs and has another bucket
C20_Witness ==
    /\ build_result = "ok"
    /\ queries = 0
    /\ Height = 3
    /\ Bucket(0) # <<>>
    /\ \E other \in GridsAgreeingAround(0) :
         /\ other[3] # schematic.lines[3]
         /\ BucketOf(other, 2) # Bucket(2)
         /\ BucketOf(other, 0) = Bucket(0)

-----------------------------------------------------------------------------
\* every character the pairing pattern matches is matched by the symbol
\* pattern passed to build
PairingCharsAreSymbols ==
    \A ch \in RawChars : ClassMatches(GearPattern, ch) => ClassMatches(symbol_pattern, ch)

\* the maximal digit runs with the cell (r, c) among their 8-neighbour cells,
\* as <<row, <<start, end>>>>
RunsAround(r, c) ==
    UNION { { <<l, se>> : se \in { x \in DigitRuns(l) : <<r, c>> \in NeighbourCells(l, x) } }
            : l \in RowBand(r) }

\* C21: if every character matched by the pairing-symbol pattern is also
\* matched by the symbol pattern used at build, every maximal digit run that is
\* 8-neighbour adjacent to a pairing-symbol occurrence is in the part catalog,
\* so the exactly-two decision for that symbol counts all numeric tokens around
\* it and not only a subset of them.
C21_RunsAroundPairingSymbolAreCatalogued ==
    (build_result = "ok" /\ PairingCharsAreSymbols) =>
        \A r \in 0..(Height - 1) : \A c \in GearCols(r) :
            /\ \A run \in RunsAround(r, c) : run[2] \in BucketSpans(run[1])
            /\ { <<pn.line_index, Span(pn)>> : pn \in AdjacentTokens(r, c) } = RunsAround(r, c)
            /\ (PairFor(r, c) # None) <=> (Cardinality(RunsAround(r, c)) = 2)

\* a queried grid with a pairing symbol that has exactly two digit runs around
\* it, one of them touching no other symbol and only diagonally, and a pair
C21_Witness ==
    /\ build_result = "ok"
    /\ queries > 0
    /\ PairingCharsAreSymbols
    /\ \E r \in 0..(Height - 1) : \E c \in GearCols(r) :
         /\ Cardinality(RunsAround(r, c)) = 2
         /\ PairFor(r, c) # None
         /\ \E run \in RunsAround(r, c) :
              /\ run[1] # r
              /\ c \in {run[2][1] - 1, run[2][2]}
              /\ \A rc \in NeighbourCells(run[1], run[2]) :
                   IsSymbolChar(Cell(rc[1], rc[2])) => rc = <<r, c>>

====
